---- MODULE Spec2Model ----
(***************************************************************************)
(* AsyncPool (slot pool with substitution) and WorkList (self-feeding      *)
(* work-queue drainer), modelled at the granularity of JavaScript's        *)
(* cooperative scheduling: one action is one synchronous block of code,    *)
(* i.e. the code between two consecutive suspension points (await).        *)
(* Source: src/unnamed/part_001 lines 129-311 (AsyncPool.ts, current       *)
(* version) and src/src/example.ts lines 34-80 (WorkList.ts).              *)
(***************************************************************************)
EXTENDS Integers, Sequences, FiniteSets, TLC

\* ---------------------------------------------------------------- bounds
\* maxWorkers is drawn from 1..MaxWorkers
MaxWorkers == 2
\* number of operations the callers of the pool specification submit in all
MaxTasks == 3
\* number of initial work items of the WorkList is drawn from 1..MaxInit
MaxInit == 2
\* number of items the worker operations push while the WorkList drains
MaxPush == 1

\* getVacantIndex's null, Promise.any's "no value yet"
NULL == -1
\* Array.prototype.pop on an empty array; the item of a task that is no worker
Undefined == -1

\* Two external callers whose submit calls may overlap (e.g. the main script
\* and one more asynchronous context), and the WorkList drainer.  A pool task
\* that calls submit itself is a caller under its own task id (1, 2, ...).
ExtCallers == {-1, -2}
Drainer == 0

VARIABLES
    maxWorkers,     \* AsyncPool.maxWorkers
    errorStrategy,  \* AsyncPool.errorStrategy
    pool,           \* AsyncPool.pool: sequence of handles (task ids); slot i is pool[i+1]
    tasks,          \* every handle wrapTaskWithIndex has created, by task id
    errors,         \* AsyncPool.errors (the reason of task t is t)
    closed,         \* AsyncPool.closed
    sub,            \* per caller: the position of its submit call
    submitCalls,    \* number of submit calls made so far
    settled,        \* task ids in the order their operations completed
    closeCall,      \* position of the close() call (ConcreteAll)
    errorsResult,   \* outcome of the getErrors() call in progress
    workList,       \* WorkList.workList
    work,           \* position of WorkList.work()
    pushed,         \* number of items pushed by workers
    allItems,       \* every item that has ever been in workList
    timer,          \* AsyncPool.count, AsyncPool.counter, AsyncPool.start
    timerArmed,     \* startTimer was called since construction / the last successful endTimer
    timerResult     \* outcome of the startTimer() / endTimer() call in progress

vars == <<maxWorkers, errorStrategy, pool, tasks, errors, closed, sub, submitCalls,
          settled, closeCall, errorsResult, workList, work, pushed, allItems,
          timer, timerArmed, timerResult>>

poolVars == <<pool, tasks, errors, closed, sub, submitCalls, settled>>
workVars == <<workList, work, pushed, allItems>>
constVars == <<maxWorkers, errorStrategy>>
timerVars == <<timer, timerArmed, timerResult>>

Range(s) == {s[i] : i \in 1..Len(s)}
Min(S) == CHOOSE x \in S : \A y \in S : x <= y
TaskIds == 1..Len(tasks)
PendingTasks == {t \in TaskIds : tasks[t].state = "pending"}

\* ------------------------------------------------------------ AsyncPool

\* GetState(p): the race against the sentinel is decided by p's state at the
\* moment of the call; the answer is delivered after the await.
GetState(t) == tasks[t].state

getVacantIndexOffByOne == IF Len(pool) <= maxWorkers THEN Len(pool) ELSE NULL
getVacantIndex == IF Len(pool) < maxWorkers THEN Len(pool) ELSE NULL

\* The state the handle takes when the wrapped operation completes
\* (the two callbacks of wrapTaskWithIndex).
HandleOutcomeAlwaysThrows(ok) == IF ok THEN "fulfilled" ELSE "rejected"
HandleOutcome(ok) ==
    IF ok THEN "fulfilled"
    ELSE IF errorStrategy = "lazy" THEN "fulfilled" ELSE "rejected"

\* this.errors after the wrapped operation of task t completed
ErrorsAfterPushAlways(t, ok) ==
    IF errorStrategy = "lazy" THEN Append(errors, t) ELSE errors
ErrorsAfter(t, ok) ==
    IF ~ok /\ errorStrategy = "lazy" THEN Append(errors, t) ELSE errors

\* this.counter after the wrapped operation completed: "if (this.count)
\* this.counter++" stands in the rejection callback, after the throw of the
\* eager strategy
CounterAfterEverySettlement(ok) ==
    IF timer.count THEN timer.counter + 1 ELSE timer.counter
CounterAfter(ok) ==
    IF ~ok /\ errorStrategy = "lazy" /\ timer.count
    THEN timer.counter + 1 ELSE timer.counter

\* The handle wrapTaskWithIndex(index, fn, ...args) returns; fn(...args) has
\* been called and its operation is running.
wrapTaskWithIndex(index, fn, item) ==
    [state |-> "pending", index |-> index, fn |-> fn, outcome |-> "none", item |-> item]

IdleSub == [pc |-> "idle", snap |-> <<>>, ret |-> NULL, fn |-> "plain", item |-> Undefined]
\* an external caller may call again at once; a task or the drainer goes on
Returned(c) == IF c \in ExtCallers THEN IdleSub ELSE [IdleSub EXCEPT !.pc = "returned"]
\* a "nested" operation will call submit itself: it gets a call record
WithNewCaller(s, fn) ==
    IF fn = "nested" THEN s @@ ((Len(tasks) + 1) :> IdleSub) ELSE s

\* Promise.any(snap) at the moment of the call: reactions of handles that are
\* already fulfilled are queued in array order, so the lowest such slot wins;
\* with every handle rejected the race rejects; otherwise it waits.
PromiseAnyHangs(snap) ==
    LET ful == {i \in 1..Len(snap) : tasks[snap[i]].state = "fulfilled"}
    IN  IF ful # {} THEN [pc |-> "resolved", ret |-> tasks[snap[Min(ful)]].index]
        ELSE [pc |-> "waiting", ret |-> NULL]
PromiseAnyNoWait(snap) == [pc |-> "resolved", ret |-> tasks[snap[1]].index]
PromiseAny(snap) ==
    LET ful == {i \in 1..Len(snap) : tasks[snap[i]].state = "fulfilled"}
    IN  IF ful # {} THEN [pc |-> "resolved", ret |-> tasks[snap[Min(ful)]].index]
        ELSE IF \A i \in 1..Len(snap) : tasks[snap[i]].state = "rejected"
             THEN [pc |-> "rejected", ret |-> NULL]
             ELSE [pc |-> "waiting", ret |-> NULL]

\* submit(fn, ...args) up to its return or its await
SubmitCall(c, fn, item) ==
    LET index == getVacantIndex
    IN  /\ submitCalls' = submitCalls + 1
        /\ IF index # NULL
           THEN /\ pool' = Append(pool, Len(tasks) + 1)
                /\ tasks' = Append(tasks, wrapTaskWithIndex(index, fn, item))
                /\ sub' = WithNewCaller([sub EXCEPT ![c] = Returned(c)], fn)
           ELSE LET r == PromiseAny(pool)
                IN  /\ UNCHANGED <<pool, tasks>>
                    /\ sub' = [sub EXCEPT ![c] = [pc |-> r.pc, snap |-> pool,
                                                  ret |-> r.ret, fn |-> fn, item |-> item]]

\* submit after "await Promise.any(this.pool)": the substitution
SubmitResume(c) ==
    /\ sub[c].pc = "resolved"
    /\ pool' = [pool EXCEPT ![sub[c].ret + 1] = Len(tasks) + 1]
    /\ tasks' = Append(tasks, wrapTaskWithIndex(sub[c].ret, sub[c].fn, sub[c].item))
    /\ sub' = WithNewCaller([sub EXCEPT ![c] = Returned(c)], sub[c].fn)
    /\ UNCHANGED <<errors, closed, submitCalls, settled, closeCall, errorsResult>>
    /\ UNCHANGED <<constVars, timerVars, workVars>>

\* What the settlement of handle t (into state st) does to a submit call that
\* waits in Promise.any: the first handle of its snapshot to fulfil wins.
AnySettle(s, t, st) ==
    IF s.pc = "waiting" /\ t \in Range(s.snap)
    THEN IF st = "fulfilled"
         THEN [s EXCEPT !.pc = "resolved", !.ret = tasks[t].index]
         ELSE IF \A u \in Range(s.snap) \ {t} : tasks[u].state = "rejected"
              THEN [s EXCEPT !.pc = "rejected"]
              ELSE s
    ELSE s

\* The operation of task t completes (ok: it succeeded) and the callback of
\* wrapTaskWithIndex runs.  A nested operation completes when its own submit
\* call has returned, and fails when that call failed.
Settle(t, ok) ==
    /\ tasks[t].state = "pending"
    /\ tasks[t].fn = "nested" =>
          /\ sub[t].pc \in {"returned", "rejected"}
          /\ ok = (sub[t].pc = "returned")
    /\ tasks' = [tasks EXCEPT ![t].state = HandleOutcome(ok),
                              ![t].outcome = IF ok THEN "ok" ELSE "fail"]
    /\ errors' = ErrorsAfter(t, ok)
    /\ settled' = Append(settled, t)
    /\ sub' = [c \in DOMAIN sub |-> AnySettle(sub[c], t, HandleOutcome(ok))]
    /\ timer' = [timer EXCEPT !.counter = CounterAfter(ok)]
    /\ UNCHANGED <<pool, closed, submitCalls, closeCall, errorsResult>>
    /\ UNCHANGED <<constVars, workVars, timerArmed, timerResult>>

\* number of submit calls suspended in Promise.any
InFlight == Cardinality({c \in DOMAIN sub : sub[c].pc \in {"waiting", "resolved"}})

\* an external caller calls submit
ExtSubmit(c, fn) ==
    /\ sub[c].pc = "idle"
    /\ Len(tasks) + InFlight < MaxTasks
    /\ SubmitCall(c, fn, Undefined)
    /\ UNCHANGED <<errors, closed, settled, closeCall, errorsResult>>
    /\ UNCHANGED <<constVars, timerVars, workVars>>

\* a running pool task calls "await pool.submit(...)" (example.ts, timer)
NestedSubmit(t) ==
    /\ tasks[t].fn = "nested"
    /\ tasks[t].state = "pending"
    /\ sub[t].pc = "idle"
    /\ Len(tasks) + InFlight < MaxTasks
    /\ SubmitCall(t, "plain", Undefined)
    /\ UNCHANGED <<errors, closed, settled, closeCall, errorsResult>>
    /\ UNCHANGED <<constVars, timerVars, workVars>>

\* ------------------------------------------------- close / ConcreteAll

IdleClose == [pc |-> "idle", idx |-> 0, seen |-> "none", snap |-> <<>>]

\* hasPending / isWorking from its first iteration up to its first await:
\* an empty array ends the loop ("returning": false is on its way to the
\* caller), otherwise slot 0 is sampled.
StartScan(c) ==
    IF Len(pool) = 0
    THEN [c EXCEPT !.pc = "returning", !.idx = 0, !.seen = "none", !.snap = <<>>]
    ELSE [c EXCEPT !.pc = "scan", !.idx = 0, !.seen = GetState(pool[1]), !.snap = <<>>]

\* hasPending after "await GetState(promise)": the sampled state decides,
\* and the iterator moves on over the array as it is now.
ScanStepSkipsRest(c) ==
    IF c.seen = "pending"
    THEN [c EXCEPT !.pc = "hasPending", !.seen = "none"]
    ELSE [c EXCEPT !.pc = "returning", !.seen = "none"]
ScanStep(c) ==
    IF c.seen = "pending"
    THEN [c EXCEPT !.pc = "hasPending", !.seen = "none"]
    ELSE IF c.idx + 1 < Len(pool)
         THEN [c EXCEPT !.idx = c.idx + 1, !.seen = GetState(pool[c.idx + 2])]
         ELSE [c EXCEPT !.pc = "returning", !.seen = "none"]

CloseCall ==
    /\ closeCall.pc = "idle"
    /\ closeCall' = StartScan(closeCall)
    /\ UNCHANGED <<poolVars, errorsResult, constVars, timerVars, workVars>>

CloseScan ==
    /\ closeCall.pc = "scan"
    /\ closeCall' = ScanStep(closeCall)
    /\ UNCHANGED <<poolVars, errorsResult, constVars, timerVars, workVars>>

\* "await Promise.all(promises)": the barrier is taken over the array as it is
\* when hasPending's true has reached the while loop
CloseBarrier ==
    /\ closeCall.pc = "hasPending"
    /\ closeCall' = [closeCall EXCEPT !.pc = "barrier", !.snap = pool]
    /\ UNCHANGED <<poolVars, errorsResult, constVars, timerVars, workVars>>

\* Promise.all(snap): rejects as soon as a handle of the snapshot is rejected,
\* resolves when all of them are fulfilled
PromiseAllSettled(snap) ==
    IF \E t \in Range(snap) : tasks[t].state = "pending" THEN "waiting" ELSE "resolved"
PromiseAll(snap) ==
    IF \E t \in Range(snap) : tasks[t].state = "rejected" THEN "rejected"
    ELSE IF \A t \in Range(snap) : tasks[t].state = "fulfilled" THEN "resolved"
    ELSE "waiting"

\* the barrier resolves: every handle of its snapshot is fulfilled; scan again
CloseBarrierDone ==
    /\ closeCall.pc = "barrier"
    /\ PromiseAll(closeCall.snap) = "resolved"
    /\ closeCall' = StartScan(closeCall)
    /\ UNCHANGED <<poolVars, errorsResult, constVars, timerVars, workVars>>

\* the barrier rejects: a handle of its snapshot is rejected; close() throws
CloseBarrierFail ==
    /\ closeCall.pc = "barrier"
    /\ PromiseAll(closeCall.snap) = "rejected"
    /\ closeCall' = [closeCall EXCEPT !.pc = "failed", !.snap = <<>>]
    /\ UNCHANGED <<poolVars, errorsResult, constVars, timerVars, workVars>>

\* "this.closed = true" once ConcreteAll's return has reached close()
CloseReturn ==
    /\ closeCall.pc = "returning"
    /\ closeCall' = [closeCall EXCEPT !.pc = "closed"]
    /\ closed' = TRUE
    /\ UNCHANGED <<pool, tasks, errors, sub, submitCalls, settled>>
    /\ UNCHANGED <<errorsResult, constVars, timerVars, workVars>>

\* ------------------------------------------------------------ getErrors

NoResult == [kind |-> "none", value |-> <<>>]

getErrorsIgnoresClosed ==
    IF errorStrategy = "eager" THEN [kind |-> "return", value |-> <<>>]
    ELSE [kind |-> "return", value |-> errors]
getErrorsEagar ==
    IF errorStrategy = "eagar" THEN [kind |-> "return", value |-> <<>>]
    ELSE IF closed THEN [kind |-> "return", value |-> errors]
    ELSE [kind |-> "throw", value |-> <<>>]
getErrors ==
    IF errorStrategy = "eager" THEN [kind |-> "return", value |-> <<>>]
    ELSE IF closed THEN [kind |-> "return", value |-> errors]
    ELSE [kind |-> "throw", value |-> <<>>]

GetErrorsCall ==
    /\ errorsResult.kind = "none"
    /\ errorsResult' = getErrors
    /\ UNCHANGED <<poolVars, closeCall, constVars, timerVars, workVars>>

\* the caller has taken the result
GetErrorsReturn ==
    /\ errorsResult.kind # "none"
    /\ errorsResult' = NoResult
    /\ UNCHANGED <<poolVars, closeCall, constVars, timerVars, workVars>>

\* ---------------------------------------------------------------- timer

\* count = false, counter = 0, start?: undefined (the fields' initialisers).
\* start holds process.hrtime()'s reading; the model keeps whether it is set.
NoTimer == [count |-> FALSE, counter |-> 0, start |-> "undefined"]
NoTimerResult == [kind |-> "none", flow |-> 0]

\* startTimer(): warns when the timer runs already, then (re)starts it
startTimer ==
    [timer |-> [timer EXCEPT !.count = TRUE, !.start = "hrtime"],
     result |-> [kind |-> IF timer.count THEN "warned" ELSE "started", flow |-> 0]]

\* endTimer(precision): throws when no timer runs; otherwise reports the
\* counter as the flow and resets start, count and counter
endTimerKeepsCount ==
    IF ~timer.count
    THEN [timer |-> timer, result |-> [kind |-> "throw", flow |-> 0]]
    ELSE [timer |-> [timer EXCEPT !.counter = 0, !.start = "undefined"],
          result |-> [kind |-> "stopped", flow |-> timer.counter]]
endTimer ==
    IF ~timer.count
    THEN [timer |-> timer, result |-> [kind |-> "throw", flow |-> 0]]
    ELSE [timer |-> NoTimer, result |-> [kind |-> "stopped", flow |-> timer.counter]]

StartTimerCall ==
    /\ timerResult.kind = "none"
    /\ timer' = startTimer.timer
    /\ timerResult' = startTimer.result
    /\ timerArmed' = TRUE
    /\ UNCHANGED <<poolVars, closeCall, errorsResult, constVars, workVars>>

EndTimerCall ==
    /\ timerResult.kind = "none"
    /\ timer' = endTimer.timer
    /\ timerResult' = endTimer.result
    /\ timerArmed' = IF endTimer.result.kind = "stopped" THEN FALSE ELSE timerArmed
    /\ UNCHANGED <<poolVars, closeCall, errorsResult, constVars, workVars>>

\* the caller has taken the outcome of the timer call
TimerReturn ==
    /\ timerResult.kind # "none"
    /\ timerResult' = NoTimerResult
    /\ UNCHANGED <<poolVars, closeCall, errorsResult, constVars, workVars>>
    /\ UNCHANGED <<timer, timerArmed>>

\* ------------------------------------------------- pool specification

Init ==
    /\ maxWorkers \in 1..MaxWorkers
    /\ errorStrategy \in {"lazy", "eager"}
    /\ pool = <<>>
    /\ tasks = <<>>
    /\ errors = <<>>
    /\ closed = FALSE
    /\ sub = [c \in ExtCallers |-> IdleSub]
    /\ submitCalls = 0
    /\ settled = <<>>
    /\ closeCall = IdleClose
    /\ errorsResult = NoResult
    /\ workList = <<>>
    /\ work = [pc |-> "off", idx |-> 0, seen |-> "none"]
    /\ pushed = 0
    /\ allItems = {}
    /\ timer = NoTimer
    /\ timerArmed = FALSE
    /\ timerResult = NoTimerResult

Next ==
    \/ \E c \in ExtCallers, fn \in {"plain", "nested"} : ExtSubmit(c, fn)
    \/ \E t \in TaskIds : NestedSubmit(t)
    \/ \E c \in DOMAIN sub : SubmitResume(c)
    \/ \E t \in TaskIds, ok \in BOOLEAN : Settle(t, ok)
    \/ CloseCall
    \/ CloseScan
    \/ CloseBarrier
    \/ CloseBarrierDone
    \/ CloseBarrierFail
    \/ CloseReturn
    \/ GetErrorsCall
    \/ GetErrorsReturn

Spec == Init /\ [][Next]_vars

\* The pool with its instrumentation: one caller submits operations and
\* starts and stops the timer at any moment.
TimerNext ==
    \/ ExtSubmit(-1, "plain")
    \/ SubmitResume(-1)
    \/ \E t \in TaskIds, ok \in BOOLEAN : Settle(t, ok)
    \/ StartTimerCall
    \/ EndTimerCall
    \/ TimerReturn

TimerSpec == Init /\ [][TimerNext]_vars

\* ------------------------------------------------------------- WorkList

\* "!item": pop's undefined, and every falsy item (0 among the numbers)
Falsy(item) == item = Undefined \/ item = 0

\* isWorking() from its first iteration up to its first await
IsWorkingStart(w) ==
    IF Len(pool) = 0
    THEN [w EXCEPT !.pc = "exit", !.idx = 0, !.seen = "none"]
    ELSE [w EXCEPT !.pc = "isWorking", !.idx = 0, !.seen = GetState(pool[1])]

\* isWorking() after "await GetState(task)"; true sends work() on to the pop,
\* false ends the while loop
IsWorkingStep(w) ==
    IF w.seen = "pending"
    THEN [w EXCEPT !.pc = "pop", !.seen = "none"]
    ELSE IF w.idx + 1 < Len(pool)
         THEN [w EXCEPT !.idx = w.idx + 1, !.seen = GetState(pool[w.idx + 2])]
         ELSE [w EXCEPT !.pc = "exit", !.seen = "none"]

\* the loop body up to its await: pop, then sleep or submit
PopAndSubmit ==
    LET n == Len(workList)
        item == IF n > 0 THEN workList[n] ELSE Undefined
    IN  /\ workList' = IF n > 0 THEN SubSeq(workList, 1, n - 1) ELSE workList
        /\ IF Falsy(item)
           THEN /\ work' = [work EXCEPT !.pc = "sleep", !.idx = 0, !.seen = "none"]
                /\ UNCHANGED <<pool, tasks, sub, submitCalls>>
           ELSE /\ work' = [work EXCEPT !.pc = "submit", !.idx = 0, !.seen = "none"]
                /\ SubmitCall(Drainer, "worker", item)

\* the while condition, evaluated at the call of work() and after each
\* iteration: a non-empty workList goes straight on to the loop body
WorkLoop ==
    /\ work.pc = "loop"
    /\ IF Len(workList) > 0
       THEN PopAndSubmit
       ELSE /\ work' = IsWorkingStart(work)
            /\ UNCHANGED <<pool, tasks, sub, submitCalls, workList>>
    /\ UNCHANGED <<errors, closed, settled, closeCall, errorsResult>>
    /\ UNCHANGED <<constVars, timerVars, pushed, allItems>>

WorkScan ==
    /\ work.pc = "isWorking"
    /\ work' = IsWorkingStep(work)
    /\ UNCHANGED <<poolVars, closeCall, errorsResult, constVars, timerVars>>
    /\ UNCHANGED <<workList, pushed, allItems>>

\* work() resumes with isWorking's true
WorkPop ==
    /\ work.pc = "pop"
    /\ PopAndSubmit
    /\ UNCHANGED <<errors, closed, settled, closeCall, errorsResult>>
    /\ UNCHANGED <<constVars, timerVars, pushed, allItems>>

\* "await sleep(10); continue"
WorkSleep ==
    /\ work.pc = "sleep"
    /\ work' = [work EXCEPT !.pc = "loop"]
    /\ UNCHANGED <<poolVars, closeCall, errorsResult, constVars, timerVars>>
    /\ UNCHANGED <<workList, pushed, allItems>>

\* "await this.pool.submit(...)" has returned
WorkSubmitted ==
    /\ work.pc = "submit"
    /\ sub[Drainer].pc = "returned"
    /\ sub' = [sub EXCEPT ![Drainer] = IdleSub]
    /\ work' = [work EXCEPT !.pc = "loop"]
    /\ UNCHANGED <<pool, tasks, errors, closed, submitCalls, settled>>
    /\ UNCHANGED <<closeCall, errorsResult, constVars, timerVars, workList, pushed, allItems>>

\* the loop has ended: "await this.pool.close()"
WorkClose ==
    /\ work.pc = "exit"
    /\ closeCall.pc = "idle"
    /\ closeCall' = StartScan(closeCall)
    /\ work' = [work EXCEPT !.pc = "closing"]
    /\ UNCHANGED <<poolVars, errorsResult, constVars, timerVars, workList, pushed, allItems>>

\* work() returns
WorkReturn ==
    /\ work.pc = "closing"
    /\ closeCall.pc = "closed"
    /\ work' = [work EXCEPT !.pc = "done"]
    /\ UNCHANGED <<poolVars, closeCall, errorsResult, constVars, timerVars>>
    /\ UNCHANGED <<workList, pushed, allItems>>

\* the item a worker pushes: a fresh, truthy one
NewItem == MaxInit + pushed + 1

\* a running worker operation pushes an item onto the work list it was given
WorkerPush(t) ==
    /\ tasks[t].fn = "worker"
    /\ tasks[t].state = "pending"
    /\ pushed < MaxPush
    /\ workList' = Append(workList, NewItem)
    /\ allItems' = allItems \cup {NewItem}
    /\ pushed' = pushed + 1
    /\ UNCHANGED <<poolVars, closeCall, errorsResult, constVars, timerVars, work>>

\* new WorkList(maxWorkers, ...items): n distinct items, 1..n or with one of
\* them replaced by the falsy item 0
InitialLists ==
    UNION {{[i \in 1..n |-> IF i = z THEN 0 ELSE i] : z \in 0..n} : n \in 1..MaxInit}

WorkInit ==
    /\ maxWorkers \in 1..MaxWorkers
    /\ errorStrategy = "lazy"
    /\ pool = <<>>
    /\ tasks = <<>>
    /\ errors = <<>>
    /\ closed = FALSE
    /\ sub = (Drainer :> IdleSub)
    /\ submitCalls = 0
    /\ settled = <<>>
    /\ closeCall = IdleClose
    /\ errorsResult = NoResult
    /\ workList \in InitialLists
    /\ work = [pc |-> "loop", idx |-> 0, seen |-> "none"]
    /\ pushed = 0
    /\ allItems = Range(workList)
    /\ timer = NoTimer
    /\ timerArmed = FALSE
    /\ timerResult = NoTimerResult

\* what work() and the calls it awaits do
DrainerNext ==
    \/ WorkLoop
    \/ WorkScan
    \/ WorkPop
    \/ WorkSleep
    \/ WorkSubmitted
    \/ WorkClose
    \/ WorkReturn
    \/ SubmitResume(Drainer)
    \/ CloseScan
    \/ CloseReturn

WorkerSettles == \E t \in TaskIds, ok \in BOOLEAN : Settle(t, ok)

WorkNext ==
    \/ DrainerNext
    \/ WorkerSettles
    \/ \E t \in TaskIds : WorkerPush(t)

WorkSpec == WorkInit /\ [][WorkNext]_vars

\* The event loop runs every continuation that is ready, and every worker
\* operation completes.
WorkFairSpec == WorkSpec /\ WF_vars(DrainerNext) /\ WF_vars(WorkerSettles)

\* ---------------------------------------------------------------- claims

\* C1 (as stated): in every reachable state the number of admitted operations
\* that have not yet settled is at most maxWorkers, overlapping and nested
\* submit calls included.
C1_UnsettledAtMostMaxWorkers == Cardinality(PendingTasks) <= maxWorkers

\* C2 (as stated): at the moment close() sets closed=true, every operation
\* submit has ever admitted has settled.
C2_CloseMeansAllSettled ==
    [][(~closed /\ closed') => \A t \in 1..Len(tasks') : tasks'[t].state # "pending"]_vars

C4_SubmitSuspension ==
    [][/\ (submitCalls' = submitCalls + 1 /\ submitCalls < maxWorkers) =>
            /\ pool' = Append(pool, Len(tasks) + 1)
            /\ Len(tasks') = Len(tasks) + 1
            /\ \A c \in DOMAIN sub : sub'[c].pc \in {"idle", "returned"}
       /\ (submitCalls' = submitCalls + 1 /\ Len(pool) = maxWorkers) =>
            /\ tasks' = tasks
            /\ pool' = pool
       /\ \A c \in DOMAIN sub :
            (sub[c].pc \in {"waiting", "resolved"} /\ sub'[c].pc \notin {"waiting", "resolved"}
                /\ Len(tasks') > Len(tasks)) =>
                    \E h \in Range(sub[c].snap) : tasks[h].state # "pending"]_vars

C4_Witness ==
    /\ submitCalls > maxWorkers
    /\ Len(tasks) = submitCalls
    /\ \A c \in DOMAIN sub : sub[c].pc \in {"idle", "returned"}

IsFailed(t) == tasks[t].outcome = "fail"
FailedInCompletionOrder == SelectSeq(settled, IsFailed)
GetErrorsIsCalled == errorsResult.kind = "none" /\ errorsResult'.kind # "none"

\* C5: under the lazy strategy a getErrors() call on a closed pool returns the
\* reasons of exactly the operations that have failed, each once, in the order
\* in which they completed.
C5_LazyErrorsExact ==
    [][(GetErrorsIsCalled /\ errorStrategy = "lazy" /\ closed) =>
            errorsResult' = [kind |-> "return", value |-> FailedInCompletionOrder]]_vars

C5_Witness ==
    /\ errorStrategy = "lazy"
    /\ closed
    /\ errorsResult.kind = "return"
    /\ Len(errorsResult.value) >= 2
    /\ \E t \in TaskIds : tasks[t].outcome = "ok"

\* C6: under the lazy strategy no handle is ever rejected: a failed operation
\* is in the error sink and its handle is fulfilled; no submit call and no
\* close() call fails.
C6_LazyNeverFails ==
    errorStrategy = "lazy" =>
        /\ \A t \in TaskIds :
            /\ tasks[t].state # "rejected"
            /\ tasks[t].outcome = "fail" =>
                  (tasks[t].state = "fulfilled" /\ t \in Range(errors))
        /\ \A c \in DOMAIN sub : sub[c].pc # "rejected"
        /\ closeCall.pc # "failed"

\* a failed operation's slot has been given to a later operation, and close()
\* has returned
C6_Witness ==
    /\ errorStrategy = "lazy"
    /\ closed
    /\ \E t \in TaskIds : tasks[t].outcome = "fail" /\ pool[tasks[t].index + 1] # t

\* C7: under the lazy strategy a getErrors() call on a pool that is not closed
\* throws, returns nothing of the sink, and changes neither the slot array,
\* the sink nor the closed flag.
C7_LazyErrorsBeforeClose ==
    [][(GetErrorsIsCalled /\ errorStrategy = "lazy" /\ ~closed) =>
            /\ errorsResult' = [kind |-> "throw", value |-> <<>>]
            /\ UNCHANGED <<pool, errors, closed>>]_vars

C7_Witness ==
    /\ errorStrategy = "lazy"
    /\ ~closed
    /\ errorsResult.kind = "throw"
    /\ Len(errors) > 0

\* C8: under the eager strategy every getErrors() call returns the empty
\* sequence and none throws, closed or not, failures or not.
C8_EagerErrorsEmpty ==
    (errorStrategy = "eager" /\ errorsResult.kind # "none") =>
        errorsResult = [kind |-> "return", value |-> <<>>]

C8_Witness ==
    /\ errorStrategy = "eager"
    /\ ~closed
    /\ errorsResult.kind = "return"
    /\ \E t \in TaskIds : tasks[t].state = "rejected"

ProcessedTimes(i) == Cardinality({t \in TaskIds : tasks[t].item = i})

\* C9 (as stated): when work() returns the work list is empty, no worker
\* operation is pending, and every item that was ever in the work list has
\* been passed to the worker function exactly once.
C9_WorkReturnsAllProcessed ==
    work.pc = "done" =>
        /\ workList = <<>>
        /\ PendingTasks = {}
        /\ \A i \in allItems : ProcessedTimes(i) = 1

\* C10: with finitely many pushes and every worker operation completing,
\* work() returns, whether workers succeed or fail.
C10_WorkTerminates == <>(work.pc = "done")

C10_Witness ==
    /\ work.pc = "done"
    /\ pushed > 0
    /\ \E t \in TaskIds : tasks[t].outcome = "fail"
    /\ \E t \in TaskIds : tasks[t].outcome = "ok"

EndTimerIsCalled == timerResult.kind = "none" /\ timerResult'.kind \in {"stopped", "throw"}
StartTimerIsCalled == timerResult.kind = "none" /\ timerResult'.kind \in {"started", "warned"}

\* C11: endTimer succeeds exactly when startTimer has been called since
\* construction or since the last successful endTimer, and throws otherwise;
\* a successful endTimer leaves count = false and counter = 0; a timer call
\* that is not an endTimer never throws, and a startTimer on a running timer
\* warns and leaves it running.
C11_TimerProtocol ==
    [][/\ EndTimerIsCalled =>
            /\ (timerResult'.kind = "stopped") <=> timerArmed
            /\ timerResult'.kind = "stopped" => (~timer'.count /\ timer'.counter = 0)
            /\ timerResult'.kind = "throw" => timer' = timer
       /\ (timerResult.kind = "none" /\ timerResult'.kind # "none" /\ ~EndTimerIsCalled) =>
            /\ StartTimerIsCalled
            /\ timer'.count
            /\ timerArmed => timerResult'.kind = "warned"]_vars

\* a second startTimer, and later a successful endTimer after failures were counted
C11_Witness ==
    /\ timerResult.kind = "stopped"
    /\ timerResult.flow > 0
    /\ ~timer.count
    /\ timer.counter = 0

\* C12 (as stated): while the timer runs, every settlement of a handle,
\* successful or failed, increases the completed-task counter by one.
C12_CounterCountsEverySettlement ==
    [][(timer.count /\ Len(settled') = Len(settled) + 1) =>
            timer'.counter = timer.counter + 1]_vars

\* C13 (as stated): whenever a slot is overwritten, the handle that occupied
\* it immediately before has settled.
C13_ReplacedOccupantSettled ==
    [][\A i \in 1..Len(pool) :
          pool'[i] # pool[i] => tasks[pool[i]].state # "pending"]_vars

AllSlotsRejected ==
    /\ Len(pool) = maxWorkers
    /\ \A i \in 1..Len(pool) : tasks[pool[i]].state = "rejected"

\* C14: under the eager strategy a submit call on a full pool whose every
\* handle has failed admits nothing: the call fails and the slot array stays
\* as it is; a call that waits fails as soon as the last handle it waits on
\* has failed.
C14_EagerAllFailedSubmitFails ==
    [][/\ (errorStrategy = "eager" /\ submitCalls' = submitCalls + 1 /\ AllSlotsRejected) =>
            /\ pool' = pool
            /\ tasks' = tasks
            /\ \E c \in DOMAIN sub : sub[c].pc = "idle" /\ sub'[c].pc = "rejected"
       /\ \A c \in DOMAIN sub :
            sub'[c].pc = "waiting" =>
                \E t \in Range(sub'[c].snap) : tasks'[t].state # "rejected"]_vars

C14_Witness ==
    /\ errorStrategy = "eager"
    /\ AllSlotsRejected
    /\ \E c \in DOMAIN sub : sub[c].pc = "rejected"
    /\ Len(tasks) = Len(pool)

\* C15: ConcreteAll returns only directly after a scan that has sampled every
\* slot of the array as it is now and found none pending; when the barrier
\* resolves the scan starts again at slot 0 of the array as it is now.
C15_CloseReturnsAfterFullScan ==
    [][/\ (closeCall'.pc = "returning" /\ closeCall.pc # "returning") =>
            \/ Len(pool) = 0 /\ closeCall.pc = "idle"
            \/ /\ closeCall.pc = "scan"
               /\ closeCall.seen # "pending"
               /\ closeCall.idx + 1 >= Len(pool)
       /\ (closeCall.pc = "barrier" /\ closeCall'.pc \notin {"barrier", "failed"}) =>
            /\ closeCall'.pc = "scan"
            /\ closeCall'.idx = 0
            /\ closeCall'.seen = tasks[pool[1]].state
       /\ (closeCall.pc = "scan" /\ closeCall'.pc = "scan" /\ closeCall' # closeCall) =>
            /\ closeCall'.idx = closeCall.idx + 1
            /\ closeCall'.seen = tasks[pool[closeCall'.idx + 1]].state
       /\ (~closed /\ closed') => closeCall.pc = "returning"]_vars

\* close() has returned after a barrier wait during which a slot was given
\* to a new handle
C15_Witness ==
    /\ closed
    /\ Len(tasks) > Len(pool)
    /\ \E t \in Range(pool) : tasks[t].state = "fulfilled" /\ t > maxWorkers
    /\ closeCall.idx + 1 = Len(pool)

\* C16 (as stated): the drainer takes the delay-and-retry branch only when
\* the backlog was empty at the pop; a popped item is always submitted.
C16_SleepOnlyOnEmptyBacklog ==
    [][/\ (work'.pc = "sleep" /\ work.pc # "sleep") => Len(workList) = 0
       /\ Len(workList') < Len(workList) => submitCalls' = submitCalls + 1]_vars

\* C19: under the eager strategy a close() whose barrier holds a failed
\* handle fails, without waiting for the handles still pending, and never
\* sets the closed flag.
C19_EagerCloseFails ==
    /\ [](closeCall.pc = "failed" => ~closed)
    /\ []((/\ closeCall.pc = "barrier"
           /\ \E t \in Range(closeCall.snap) : tasks[t].state = "rejected")
              => ENABLED CloseBarrierFail)
    /\ [][(/\ closeCall.pc = "barrier"
           /\ \E t \in Range(closeCall.snap) : tasks[t].state = "rejected")
              => closeCall'.pc \in {"barrier", "failed"}]_vars

C19_Witness ==
    /\ errorStrategy = "eager"
    /\ closeCall.pc = "failed"
    /\ ~closed
    /\ \E i, j \in 1..Len(pool) :
          tasks[pool[i]].state = "pending" /\ tasks[pool[j]].state = "rejected"

\* C20 (as stated): under the eager strategy a slot whose handle has failed
\* is never given to another handle.
C20_EagerFailedSlotKept ==
    [][\A i \in 1..Len(pool) :
          (errorStrategy = "eager" /\ tasks[pool[i]].state = "rejected")
              => pool'[i] = pool[i]]_vars

\* ------------------------------------------------ one sequential caller
\* The way testPool drives the pool: one caller awaits each submit before
\* the next, the operations never call submit, and close() is called after
\* the last submit has returned.  Lazy strategy.
SeqInit == Init /\ errorStrategy = "lazy"

SeqNext ==
    \/ closeCall.pc = "idle" /\ ExtSubmit(-1, "plain")
    \/ SubmitResume(-1)
    \/ \E t \in TaskIds, ok \in BOOLEAN : Settle(t, ok)
    \/ sub[-1].pc = "idle" /\ CloseCall
    \/ CloseScan
    \/ CloseBarrier
    \/ CloseBarrierDone
    \/ CloseReturn

SeqSpec == SeqInit /\ [][SeqNext]_vars

\* C17: with one sequential caller, no nested submit and close() called after
\* the last submit, lazy strategy: at most maxWorkers admitted operations are
\* unsettled at any time, and close() returns only when all have settled.
C17_SequentialUseIsSafe ==
    /\ Cardinality(PendingTasks) <= maxWorkers
    /\ (closed \/ closeCall.pc = "returning") => PendingTasks = {}

C17_Witness ==
    /\ closed
    /\ Len(tasks) = MaxTasks
    /\ Len(tasks) > maxWorkers
    /\ \E t \in TaskIds : tasks[t].outcome = "fail"
    /\ \E t \in TaskIds : tasks[t].outcome = "ok"
    /\ settled # <<1, 2, 3>>

\* C18 (as stated): under the lazy strategy no state is reachable in which
\* every slot is held by a task that is itself suspended in submit.
C18_NoSlotHeldBySuspendedSubmitter ==
    ~ /\ errorStrategy = "lazy"
      /\ Len(pool) = maxWorkers
      /\ \A i \in 1..Len(pool) :
            /\ tasks[pool[i]].state = "pending"
            /\ pool[i] \in DOMAIN sub
            /\ sub[pool[i]].pc = "waiting"
            /\ Range(sub[pool[i]].snap) \subseteq Range(pool)

====
